---------------------------- MODULE Spec2Model ----------------------------
(***************************************************************************)
(* Model of leep-frog/emacs: the emacs shortcut CLI.                       *)
(*                                                                         *)
(* src/emacs.go holds two generations of the program:                      *)
(*   - lines 1-267:   the version built on github.com/leep-frog/command    *)
(*                    (OpenEditor, RunHistorical, emacsArgNode, emacsEdge) *)
(*   - lines 269-568: the version built on github.com/leep-frog/commands   *)
(*                    (AddAlias, DeleteAliases, ListAliases, OpenEditor,   *)
(*                    RunHistorical); its definitions carry the suffix     *)
(*                    Legacy where the name is used by both.               *)
(* Both work on the same persisted session state (Aliases,                 *)
(* PreviousExecutions) and the same package variable historyLimit.         *)
(*                                                                         *)
(* Go strings are modelled as sequences of one-character strings, so that  *)
(* strconv.Atoi and fmt.Sprintf("+%d") are computed, not assumed.          *)
(***************************************************************************)
EXTENDS Integers, Sequences, FiniteSets, TLC

VARIABLES
    Aliases,             \* e.Aliases: alias name -> absolute path
    PreviousExecutions,  \* e.PreviousExecutions: records, oldest first
    changed,             \* e.changed
    historyLimit,        \* package variable historyLimit
    op,                  \* the operation that ran last
    args,                \* its tokens, as the framework received them
    allowNewFiles,       \* the --new flag of the last OpenEditor
    debugInit,           \* the debugInit argument of the last rendering
    ret,                 \* what the handler returned / reported
    extraArgs,           \* tokens the framework left unprocessed
    Executable,          \* eData.Executable / ExecutorResponse handed back
    recorded,            \* the record the last operation appended, if any
    stdout,              \* lines printed by the last operation
    stderr,              \* messages reported by the last operation
    pc,                  \* position of the token scan that is in progress
    files,               \* files of the pairing loop
    fo,                  \* fo of the pairing loop: <<>> is nil
    kinds,               \* per scanned token: how the loop consumed it
    offered              \* every record of the ledger's life, oldest first

stateVars == <<Aliases, PreviousExecutions, changed, historyLimit>>
callVars  == <<op, args, allowNewFiles, debugInit, ret, extraArgs,
               Executable, recorded, stdout, stderr>>
scanVars  == <<pc, files, fo, kinds>>
vars == <<Aliases, PreviousExecutions, changed, historyLimit, op, args,
          allowNewFiles, debugInit, ret, extraArgs, Executable, recorded,
          stdout, stderr, pc, files, fo, kinds, offered>>

---------------------------------------------------------------------------
(* Bounds of the model.                                                    *)

\* largest capacity the package variable historyLimit is set to
MaxHistoryLimit == 2
\* longest ledger a loaded JSON state carries
MaxLoaded == 3
\* appends followed in the ledger specification
MaxAppends == 4

\* commands.StringListArg(emacsArg, 0, 4, completor)
MaxTokens == 4

---------------------------------------------------------------------------
(* Strings.                                                                *)

Digit == <<"0", "1", "2", "3", "4", "5", "6", "7", "8", "9">>

IsDigit(c) == \E d \in 1..10 : Digit[d] = c

DigitVal(c) == (CHOOSE d \in 1..10 : Digit[d] = c) - 1

RECURSIVE DigitsVal(_)
DigitsVal(s) ==
    IF s = <<>> THEN 0
    ELSE 10 * DigitsVal(SubSeq(s, 1, Len(s) - 1)) + DigitVal(s[Len(s)])

\* strconv.Atoi: optional sign, then one or more decimal digits.  (The
\* 64-bit range error needs 19 digits; tokens here have at most 3.)
Atoi(s) ==
    LET signed == Len(s) > 0 /\ s[1] \in {"+", "-"}
        body   == IF signed THEN Tail(s) ELSE s
        ok     == Len(body) > 0 /\ \A i \in 1..Len(body) : IsDigit(body[i])
    IN  [ok |-> ok,
         v  |-> IF ~ok THEN 0
                ELSE IF signed /\ s[1] = "-" THEN 0 - DigitsVal(body)
                ELSE DigitsVal(body)]

RECURSIVE NatStr(_)
NatStr(n) ==
    IF n < 10 THEN <<Digit[n + 1]>>
    ELSE Append(NatStr(n \div 10), Digit[(n % 10) + 1])

\* the %d verb
Itoa(n) == IF n < 0 THEN <<"-">> \o NatStr(0 - n) ELSE NatStr(n)

\* fmt.Sprintf("+%d", f.lineNumber)
LineFlag(n) == <<"+">> \o Itoa(n)

EMACS == <<"e", "m", "a", "c", "s">>
NWS == <<"-", "-", "n", "o", "-", "w", "i", "n", "d", "o", "w", "-",
         "s", "y", "s", "t", "e", "m">>
CD == <<"c", "d">>

SeqsUpTo(S, n) == UNION {[1..k -> S] : k \in 0..n}

---------------------------------------------------------------------------
(* The environment: the file system and the working directory.             *)

Directories == {<<"d">>}
RegularFiles == {<<"a">>, <<"b">>, <<"/", "p">>}

\* os.Stat: "dir", "file", or the not-exist error
Stat(name) ==
    IF name \in Directories THEN "dir"
    ELSE IF name \in RegularFiles THEN "file"
    ELSE "notexist"

Cwd == <<"/", "w">>

\* filepath.Join(cwd, name); Clean leaves the names used here as they are
\* (no ".", ".." or doubled separators occur in them).
Join(dir, name) == dir \o <<"/">> \o name

---------------------------------------------------------------------------
(* The history ledger.                                                     *)

\* the append without the cut to historyLimit
appendExecutionNoCut(pe, cmd, limit) == Append(pe, cmd)

\* the append with the cut taken from the wrong end
appendExecutionKeepFirst(pe, cmd, limit) ==
    LET grown == Append(pe, cmd)
    IN  IF Len(grown) > limit THEN SubSeq(grown, 1, limit) ELSE grown

\* the append that puts the command in front of the ledger
appendExecutionFront(pe, cmd, limit) ==
    LET grown == <<cmd>> \o pe
    IN  IF Len(grown) > limit
        THEN SubSeq(grown, Len(grown) - limit + 1, Len(grown))
        ELSE grown

\* the append that skips a command equal to the newest record
appendExecutionDedup(pe, cmd, limit) ==
    IF Len(pe) > 0 /\ pe[Len(pe)] = cmd THEN pe
    ELSE LET grown == Append(pe, cmd)
         IN  IF Len(grown) > limit
             THEN SubSeq(grown, Len(grown) - limit + 1, Len(grown))
             ELSE grown

\* e.PreviousExecutions = append(e.PreviousExecutions, cmd), then the cut
\* to the last historyLimit entries.
appendExecution(pe, cmd, limit) ==
    LET grown == Append(pe, cmd)
    IN  IF Len(grown) > limit
        THEN SubSeq(grown, Len(grown) - limit + 1, Len(grown))
        ELSE grown

---------------------------------------------------------------------------
(* The commands-based OpenEditor: pairing loop and rendering.              *)

NewFileOpts(name) == [name |-> name, lineNumber |-> 0]

ScanInit == [files |-> <<>>, fo |-> <<>>]

\* the iteration without "fo = nil" after a line number was attached
ScanStepNoReset(st, erg) ==
    IF st.fo = <<>>
    THEN [files |-> st.files, fo |-> <<NewFileOpts(erg)>>]
    ELSE IF ~Atoi(erg).ok
    THEN [files |-> Append(st.files, st.fo[1]), fo |-> <<NewFileOpts(erg)>>]
    ELSE [files |-> st.files,
          fo |-> <<[st.fo[1] EXCEPT !.lineNumber = Atoi(erg).v]>>]

\* one iteration of "for _, erg := range ergs"
ScanStep(st, erg) ==
    IF st.fo = <<>>
    THEN [files |-> st.files, fo |-> <<NewFileOpts(erg)>>]
    ELSE IF ~Atoi(erg).ok
    THEN [files |-> Append(st.files, st.fo[1]), fo |-> <<NewFileOpts(erg)>>]
    ELSE [files |-> Append(st.files,
                           [st.fo[1] EXCEPT !.lineNumber = Atoi(erg).v]),
          fo |-> <<>>]

\* the end of the loop without the append of the open fileOpts
ScanFinishDrop(st) == st.files

\* "if fo != nil { files = append(files, fo) }"
ScanFinish(st) ==
    IF st.fo # <<>> THEN Append(st.files, st.fo[1]) ELSE st.files

RECURSIVE ScanLoop(_, _, _)
ScanLoop(ergs, i, st) ==
    IF i > Len(ergs) THEN st
    ELSE ScanLoop(ergs, i + 1, ScanStep(st, ergs[i]))

PairTokens(ergs) == ScanFinish(ScanLoop(ergs, 1, ScanInit))

\* "for i := len(files) - 1; i >= 0; i--": command and fileIdxs
RECURSIVE RenderLoop(_, _, _, _, _)
RenderLoop(fs, i, command, fileIdxs, aliases) ==
    IF i < 1 THEN [command |-> command, fileIdxs |-> fileIdxs]
    ELSE LET f  == fs[i]
             c1 == IF f.lineNumber # 0
                   THEN Append(command, LineFlag(f.lineNumber))
                   ELSE command
         IN  IF f.name \in DOMAIN aliases
             THEN RenderLoop(fs, i - 1, Append(c1, aliases[f.name]),
                             fileIdxs, aliases)
             ELSE RenderLoop(fs, i - 1, Append(c1, f.name),
                             Append(fileIdxs, Len(c1) + 1), aliases)

RenderLegacy(fs, aliases) ==
    RenderLoop(fs, Len(fs), <<EMACS, NWS>>, <<>>, aliases)

\* absCommand with the alias paths joined to the working directory too
AbsCommandAliasesToo(r) ==
    [k \in 1..Len(r.command) |->
        IF k > 2 /\ r.command[k][1] # "+"
        THEN Join(Cwd, r.command[k])
        ELSE r.command[k]]

\* absCommand: the entries at fileIdxs joined to the working directory
AbsCommand(r) ==
    [k \in 1..Len(r.command) |->
        IF \E j \in 1..Len(r.fileIdxs) : r.fileIdxs[j] = k
        THEN Join(Cwd, r.command[k])
        ELSE r.command[k]]

---------------------------------------------------------------------------
(* basic.go: the direct-mode renderer.                                     *)

\* the renderer with the line flag put after its path
RECURSIVE basicLoopFlagAfter(_, _, _)
basicLoopFlagAfter(fos, i, r) ==
    IF i < 1 THEN r
    ELSE LET f  == fos[i]
             r1 == Append(r, f.name)
         IN  basicLoopFlagAfter(fos, i - 1,
                                IF f.lineNumber # 0
                                THEN Append(r1, LineFlag(f.lineNumber))
                                ELSE r1)

basicFlagAfter(fos) == basicLoopFlagAfter(fos, Len(fos), <<EMACS, NWS>>)

\* the renderer that writes a line flag for line 0 too
RECURSIVE basicLoopZeroFlag(_, _, _)
basicLoopZeroFlag(fos, i, r) ==
    IF i < 1 THEN r
    ELSE basicLoopZeroFlag(fos, i - 1,
                           Append(Append(r, LineFlag(fos[i].lineNumber)),
                                  fos[i].name))

RECURSIVE basicLoop(_, _, _)
basicLoop(fos, i, r) ==
    IF i < 1 THEN r
    ELSE LET f  == fos[i]
             r1 == IF f.lineNumber # 0
                   THEN Append(r, LineFlag(f.lineNumber))
                   ELSE r
         IN  basicLoop(fos, i - 1, Append(r1, f.name))

basicZeroFlag(fos) == basicLoopZeroFlag(fos, Len(fos), <<EMACS, NWS>>)

basic(fos) == basicLoop(fos, Len(fos), <<EMACS, NWS>>)

RECURSIVE JoinStrings(_, _)
\* strings.Join
JoinStrings(ss, sep) ==
    IF ss = <<>> THEN <<>>
    ELSE IF Len(ss) = 1 THEN ss[1]
    ELSE ss[1] \o sep \o JoinStrings(Tail(ss), sep)

\* The renderers that take debugInit (the later versions of basic.go).  A
\* result is [out, err]; err "ok" is the nil error, out <<>> the nil slice
\* or the empty string.

DEBUGINIT ==
    <<"-", "-", "d", "e", "b", "u", "g", "-", "i", "n", "i", "t">>

\* basic(debugInit, fos...) ([]string, error)
basicDebug(dbg, fos) ==
    [out |-> basicLoop(fos, Len(fos),
                       IF dbg THEN <<EMACS, NWS, DEBUGINIT>>
                       ELSE <<EMACS, NWS>>),
     err |-> "ok"]

\* basic(debugInit, fos...) (string, error)
basicString(dbg, fos) ==
    [out |-> JoinStrings(basicDebug(dbg, fos).out, <<" ">>), err |-> "ok"]

FINDFILE ==
    <<"f", "i", "n", "d", "-", "f", "i", "l", "e">>

FINDFILEOTHERWINDOW ==
    <<"f", "i", "n", "d", "-", "f", "i", "l", "e", "-", "o", "t", "h", "e",
      "r", "-", "w", "i", "n", "d", "o", "w">>

\* fmt.Sprintf(`(%s "%s")`, findCmd, fo.name)
FindExpr(findCmd, name) ==
    <<"(">> \o findCmd \o <<" ", "\"">> \o name \o <<"\"", ")">>

\* fmt.Sprintf(`(goto-line %d)`, fo.lineNumber)
GotoLine(n) ==
    <<"(", "g", "o", "t", "o", "-", "l", "i", "n", "e", " ">> \o Itoa(n) \o <<")">>

OTHERWINDOW1 ==
    <<"(", "o", "t", "h", "e", "r", "-", "w", "i", "n", "d", "o", "w", " ",
      "1", ")">>

\* the loop of daemon with find-file for every file
RECURSIVE daemonLoopSameFind(_, _, _, _)
daemonLoopSameFind(fos, i, eCmds, findCmd) ==
    IF i > Len(fos) THEN eCmds
    ELSE LET e1 == Append(eCmds, FindExpr(findCmd, fos[i].name))
             e2 == IF fos[i].lineNumber # 0
                   THEN Append(e1, GotoLine(fos[i].lineNumber))
                   ELSE e1
         IN  daemonLoopSameFind(fos, i + 1, e2, findCmd)

\* "for _, fo := range fos" of daemon
RECURSIVE daemonLoop(_, _, _, _)
daemonLoop(fos, i, eCmds, findCmd) ==
    IF i > Len(fos) THEN eCmds
    ELSE LET e1 == Append(eCmds, FindExpr(findCmd, fos[i].name))
             e2 == IF fos[i].lineNumber # 0
                   THEN Append(e1, GotoLine(fos[i].lineNumber))
                   ELSE e1
         IN  daemonLoop(fos, i + 1, e2, FINDFILEOTHERWINDOW)

\* eCmds of daemon with find-file for every file
daemonCmdsSameFind(fos) ==
    LET eCmds == daemonLoopSameFind(fos, 1, <<>>, FINDFILE)
    IN  IF Len(fos) = 2 THEN Append(eCmds, OTHERWINDOW1) ELSE eCmds

\* eCmds of daemon with the window switch for two files or more
daemonCmdsSplitMany(fos) ==
    LET eCmds == daemonLoop(fos, 1, <<>>, FINDFILE)
    IN  IF Len(fos) >= 2 THEN Append(eCmds, OTHERWINDOW1) ELSE eCmds

\* eCmds of daemon when it reaches the return
daemonCmds(fos) ==
    LET eCmds == daemonLoop(fos, 1, <<>>, FINDFILE)
    IN  IF Len(fos) = 2 THEN Append(eCmds, OTHERWINDOW1) ELSE eCmds

EMACSCLIENT ==
    <<"e", "m", "a", "c", "s", "c", "l", "i", "e", "n", "t">>

\* fmt.Sprintf("'(progn %s)'", strings.Join(eCmds, ""))
Progn(eCmds) ==
    <<"'", "(", "p", "r", "o", "g", "n", " ">> \o JoinStrings(eCmds, <<>>)
        \o <<")", "'">>

NOTALLOWED == "--debug-init flag is not allowed in daemon mode"

\* daemon that takes debugInit and ignores it
daemonDebugAccepts(dbg, fos) ==
    [out |-> <<EMACSCLIENT, <<"-", "t">>, <<"-", "e">>,
               Progn(daemonCmds(fos))>>,
     err |-> "ok"]

\* daemon(debugInit, fos...) ([]string, error)
daemonDebug(dbg, fos) ==
    IF dbg THEN [out |-> <<>>, err |-> NOTALLOWED]
    ELSE [out |-> <<EMACSCLIENT, <<"-", "t">>, <<"-", "e">>,
                    Progn(daemonCmds(fos))>>,
          err |-> "ok"]

\* daemon(debugInit, fos...) (string, error)
daemonString(dbg, fos) ==
    IF dbg THEN [out |-> <<>>, err |-> NOTALLOWED]
    ELSE [out |-> EMACSCLIENT \o <<" ", "-", "t", " ", "-", "e", " ">>
                      \o Progn(daemonCmds(fos)),
          err |-> "ok"]

---------------------------------------------------------------------------
(* The command-based OpenEditor: the argument nodes and the handler body.  *)

\* intOpt.CustomSet: pad LINE_NUMBER with zeros up to len(sl)-1, append v
IntCustomSetNoPad(sl, il, v) == Append(il, v)

\* the LINE_NUMBER list filled up to the length of the filename list before
\* the integer is added
IntCustomSetPadAll(sl, il, v) ==
    LET pad == IF Len(sl) > Len(il) THEN Len(sl) - Len(il) ELSE 0
    IN  il \o [k \in 1..pad |-> 0] \o <<v>>

IntCustomSet(sl, il, v) ==
    LET pad == IF Len(sl) - 1 > Len(il) THEN Len(sl) - 1 - Len(il) ELSE 0
    IN  il \o [k \in 1..pad |-> 0] \o <<v>>

RECURSIVE EmacsArgNode(_, _, _)
RECURSIVE EmacsEdgeNext(_, _, _)
RECURSIVE IntNode(_, _, _)

\* n: OptionalStringNode(emacsArg, opt) and its CustomSet, then its edge
EmacsArgNode(sl, il, input) ==
    IF input = <<>>
    THEN EmacsEdgeNext(sl, il, input)
    ELSE EmacsEdgeNext(Append(sl, Head(input)), il, Tail(input))

\* emacsEdge.Next; reaching ee.next ends the walk with what is left over
EmacsEdgeNext(sl, il, input) ==
    IF input = <<>> THEN [sl |-> sl, il |-> il, rest |-> input]
    ELSE IF Atoi(Head(input)).ok THEN IntNode(sl, il, input)
    ELSE IF Len(sl) >= 2 THEN [sl |-> sl, il |-> il, rest |-> input]
    ELSE EmacsArgNode(sl, il, input)

\* in: IntNode(lineArg, intOpt), whose edge leads back to n
IntNode(sl, il, input) ==
    EmacsArgNode(sl, IntCustomSet(sl, il, Atoi(Head(input)).v), Tail(input))

ParseArgs(tokens) == EmacsArgNode(<<>>, <<>>, tokens)

\* the loop with the existence check made whatever the --new flag says
RECURSIVE BuildFilesIgnoreNew(_, _, _, _, _)
BuildFilesIgnoreNew(ergs, il, new, i, fs) ==
    IF i < 1 THEN [ok |-> TRUE, files |-> fs]
    ELSE IF Stat(ergs[i]) = "notexist"
    THEN [ok |-> FALSE, files |-> fs]
    ELSE BuildFilesIgnoreNew(ergs, il, new, i - 1,
                             Append(fs, [name |-> ergs[i],
                                         lineNumber |-> IF i <= Len(il)
                                                        THEN il[i] ELSE 0]))

\* "for i := len(ergs) - 1; i >= 0; i--": existence check and fileOpts
RECURSIVE BuildFiles(_, _, _, _, _)
BuildFiles(ergs, il, new, i, fs) ==
    IF i < 1 THEN [ok |-> TRUE, files |-> fs]
    ELSE IF ~new /\ Stat(ergs[i]) = "notexist"
    THEN [ok |-> FALSE, files |-> fs]
    ELSE BuildFiles(ergs, il, new, i - 1,
                    Append(fs, [name |-> ergs[i],
                                lineNumber |-> IF i <= Len(il) THEN il[i]
                                               ELSE 0]))

\* "for _, f := range files": cmd
RECURSIVE CmdLoop(_, _, _)
CmdLoop(fs, i, cmd) ==
    IF i > Len(fs) THEN cmd
    ELSE LET f  == fs[i]
             c1 == IF f.lineNumber # 0
                   THEN Append(cmd, LineFlag(f.lineNumber))
                   ELSE cmd
         IN  CmdLoop(fs, i + 1, Append(c1, f.name))

\* repeat-last without the check for an empty ledger
RepeatLastNoCheck(pe) ==
    [ret |-> "ok",
     Executable |-> IF Len(pe) = 0 THEN <<>> ELSE <<pe[Len(pe)]>>,
     executor |-> <<>>]

\* repeat-last that takes the oldest record
RepeatLastOldest(pe) ==
    IF Len(pe) = 0
    THEN [ret |-> "no previous executions", Executable |-> <<>>,
          executor |-> <<>>]
    ELSE [ret |-> "ok", Executable |-> <<pe[1]>>, executor |-> <<>>]

\* repeat-last that records the repeated command again
RepeatLastRecords(pe) ==
    IF Len(pe) = 0
    THEN [ret |-> "no previous executions", Executable |-> <<>>,
          executor |-> <<>>]
    ELSE [ret |-> "ok", Executable |-> <<pe[Len(pe)]>>,
          executor |-> <<pe[Len(pe)]>>]

\* "if len(ergs) == 0 { ... }"
RepeatLast(pe) ==
    IF Len(pe) = 0
    THEN [ret |-> "no previous executions", Executable |-> <<>>,
          executor |-> <<>>]
    ELSE [ret |-> "ok", Executable |-> <<pe[Len(pe)]>>, executor |-> <<>>]

\* The body of OpenEditor up to its return: the error it returns, what it
\* appends to eData.Executable, and the cmd its Executor closure holds.
OpenEditorBody(ergs, il, new, pe) ==
    IF Len(ergs) = 0
    THEN RepeatLast(pe)
    ELSE IF Len(ergs) = 1 /\ Stat(ergs[1]) = "dir"
    THEN [ret |-> "ok", Executable |-> <<<<CD, ergs[1]>>>>, executor |-> <<>>]
    ELSE LET b == BuildFiles(ergs, il, new, Len(ergs), <<>>)
         IN  IF ~b.ok
             THEN [ret |-> "file does not exist", Executable |-> <<>>,
                   executor |-> <<>>]
             ELSE LET cmd == CmdLoop(b.files, 1, <<EMACS, NWS>>)
                  IN  [ret |-> "ok", Executable |-> <<cmd>>,
                       executor |-> <<cmd>>]

---------------------------------------------------------------------------
(* Inputs.                                                                 *)

\* tokens of the interpreter specification: names, an alias name, integers
\* (also zero, signed, zero-padded) and a name that starts with a digit
Tok == {<<"a">>, <<"b">>, <<"s">>, <<"7">>, <<"0">>, <<"3", "2">>,
        <<"-", "3">>, <<"7", "a">>}

\* invocations of the session specification: repeat-last, a directory, an
\* existing and a missing file, a line number, a missing file after an
\* existing one, three names, and a directory with a line number
SessionInputs ==
    {<<>>, <<<<"d">>>>, <<<<"a">>>>, <<<<"n">>>>, <<<<"a">>, <<"7">>>>,
     <<<<"a">>, <<"n">>>>, <<<<"a">>, <<"b">>, <<"n">>>>,
     <<<<"d">>, <<"7">>>>}

\* invocations of the commands-based version in the session specification
LegacyInputs == {<<>>, <<<<"a">>>>, <<<<"s">>, <<"7">>>>}

AliasNames == {<<"s">>}
AliasFiles == {<<"a">>, <<"d">>, <<"n">>}

NoAliases == [n \in {} |-> <<>>]
LoadedAliases == {NoAliases, [n \in {<<"s">>} |-> Join(Cwd, <<"a">>)]}

\* the k-th record of a loaded ledger
LoadedRecord(k) == <<EMACS, NWS, <<"f">> \o Itoa(k)>>
LoadedLedgers == {[i \in 1..k |-> LoadedRecord(i)] : k \in 0..MaxLoaded}

---------------------------------------------------------------------------
(* The state after Load.                                                   *)

InitCall ==
    /\ op = "Load"
    /\ args = <<>>
    /\ allowNewFiles = FALSE
    /\ debugInit = FALSE
    /\ ret = "ok"
    /\ extraArgs = <<>>
    /\ Executable = <<>>
    /\ recorded = <<>>
    /\ stdout = <<>>
    /\ stderr = <<>>

Init ==
    /\ Aliases \in LoadedAliases
    /\ PreviousExecutions \in LoadedLedgers
    /\ changed = FALSE
    /\ historyLimit \in 1..MaxHistoryLimit
    /\ InitCall
    /\ pc = "idle"
    /\ files = <<>>
    /\ fo = <<>>
    /\ kinds = <<>>
    /\ offered = <<>>

---------------------------------------------------------------------------
(* Operations.                                                             *)

\* OpenEditor of the command-based version, run by the framework: the
\* argument nodes, the handler, the check for unprocessed arguments, and
\* the Executor closure, which the framework runs only when all succeeded.
OpenEditorCall(tokens, new) ==
    LET p   == ParseArgs(tokens)
        r   == OpenEditorBody(p.sl, p.il, new, PreviousExecutions)
        ran == r.ret = "ok" /\ p.rest = <<>> /\ r.executor # <<>>
    IN  /\ op' = "OpenEditor"
        /\ args' = tokens
        /\ allowNewFiles' = new
        /\ debugInit' = FALSE
        /\ ret' = r.ret
        /\ extraArgs' = IF r.ret = "ok" THEN p.rest ELSE <<>>
        /\ Executable' = r.Executable
        /\ stdout' = <<>>
        /\ stderr' = IF r.ret # "ok" THEN <<r.ret>>
                     ELSE IF p.rest # <<>> THEN <<"Unprocessed extra args">>
                     ELSE <<>>
        /\ IF ran
           THEN /\ changed' = TRUE
                /\ PreviousExecutions' =
                       appendExecution(PreviousExecutions, r.executor[1],
                                       historyLimit)
                /\ recorded' = r.executor
           ELSE /\ UNCHANGED <<changed, PreviousExecutions>>
                /\ recorded' = <<>>
        /\ UNCHANGED <<Aliases, historyLimit>>

OpenEditor ==
    \E tokens \in SessionInputs, new \in BOOLEAN :
        /\ OpenEditorCall(tokens, new)
        /\ UNCHANGED <<scanVars, offered>>

\* OpenEditor of the commands-based version; cwdOK: os.Getwd succeeds
OpenEditorLegacyCall(ergs, cwdOK) ==
    /\ op' = "OpenEditorLegacy"
    /\ args' = ergs
    /\ allowNewFiles' = FALSE
    /\ debugInit' = FALSE
    /\ extraArgs' = <<>>
    /\ stdout' = <<>>
    /\ UNCHANGED <<Aliases, historyLimit>>
    /\ IF Len(ergs) = 0
       THEN /\ IF Len(PreviousExecutions) = 0
               THEN /\ ret' = "no previous executions"
                    /\ stderr' = <<"no previous executions">>
                    /\ Executable' = <<>>
               ELSE /\ ret' = "ok"
                    /\ stderr' = <<>>
                    /\ Executable' =
                           <<PreviousExecutions[Len(PreviousExecutions)]>>
            /\ recorded' = <<>>
            /\ UNCHANGED <<changed, PreviousExecutions>>
       ELSE LET r == RenderLegacy(PairTokens(ergs), Aliases)
            IN  /\ ret' = "ok"
                /\ Executable' = <<r.command>>
                /\ IF cwdOK
                   THEN /\ changed' = TRUE
                        /\ PreviousExecutions' =
                               appendExecution(PreviousExecutions,
                                               AbsCommand(r), historyLimit)
                        /\ recorded' = <<AbsCommand(r)>>
                        /\ stderr' = <<>>
                   ELSE /\ UNCHANGED <<changed, PreviousExecutions>>
                        /\ recorded' = <<>>
                        /\ stderr' = <<"failed to get current directory">>

OpenEditorLegacy ==
    \E ergs \in LegacyInputs, cwdOK \in BOOLEAN :
        /\ OpenEditorLegacyCall(ergs, cwdOK)
        /\ UNCHANGED <<scanVars, offered>>

\* fmt.Sprintf("%2d: %s", revIdx, strings.Join(pe, " "))
HistoryLine(revIdx, pe) ==
    (IF Len(Itoa(revIdx)) < 2 THEN <<" ">> ELSE <<>>) \o Itoa(revIdx)
        \o <<":", " ">> \o JoinStrings(pe, <<" ">>)

\* the listing of RunHistorical: "for idx, pe := range e.PreviousExecutions"
\* with revIdx := len(e.PreviousExecutions) - 1 - idx
HistoryLinesForward(pe) ==
    [k \in 1..Len(pe) |-> HistoryLine(k - 1, pe[k])]

HistoryLines(pe) ==
    [k \in 1..Len(pe) |-> HistoryLine(Len(pe) - k, pe[k])]

\* the lookup of RunHistorical: "if idx >= len(e.PreviousExecutions)" and
\* e.PreviousExecutions[len(e.PreviousExecutions)-1-idx]
HistoricalGetFromFront(pe, idx) ==
    IF idx >= Len(pe)
    THEN [ret |-> "larger than list of stored commands", Executable |-> <<>>]
    ELSE [ret |-> "ok", Executable |-> <<pe[idx + 1]>>]

\* the lookup that hands back the newest record for every index in range
HistoricalGetNewest(pe, idx) ==
    IF idx >= Len(pe)
    THEN [ret |-> "larger than list of stored commands", Executable |-> <<>>]
    ELSE [ret |-> "ok", Executable |-> <<pe[Len(pe)]>>]

HistoricalGet(pe, idx) ==
    IF idx >= Len(pe)
    THEN [ret |-> "larger than list of stored commands", Executable |-> <<>>]
    ELSE [ret |-> "ok", Executable |-> <<pe[Len(pe) - idx]>>]

\* RunHistorical (the same in both versions); provided: COMMAND_IDX given.
\* A negative index is stopped by the IntNonNegative validator of the
\* argument before the handler runs.
RunHistorical ==
    \E provided \in BOOLEAN, idx \in -1..(MaxLoaded + 1) :
        /\ ~provided => idx = 0
        /\ op' = "RunHistorical"
        /\ args' = IF provided THEN <<Itoa(idx)>> ELSE <<>>
        /\ allowNewFiles' = FALSE
        /\ debugInit' = FALSE
        /\ extraArgs' = <<>>
        /\ recorded' = <<>>
        /\ IF ~provided
           THEN /\ stdout' = HistoryLines(PreviousExecutions)
                /\ ret' = "ok"
                /\ stderr' = <<>>
                /\ Executable' = <<>>
           ELSE IF idx < 0
           THEN /\ stdout' = <<>>
                /\ ret' = "validation failed"
                /\ stderr' = <<"validation failed">>
                /\ Executable' = <<>>
           ELSE LET r == HistoricalGet(PreviousExecutions, idx)
                IN  /\ stdout' = <<>>
                    /\ ret' = r.ret
                    /\ stderr' = IF r.ret = "ok" THEN <<>> ELSE <<r.ret>>
                    /\ Executable' = r.Executable
        /\ UNCHANGED <<stateVars, scanVars, offered>>

\* the body of AddAlias that overwrites a bound alias
AddAliasOverwrite(aliases, alias, filename, absOK) ==
    IF Stat(filename) = "notexist"
    THEN [ret |-> "error with file", aliases |-> aliases, set |-> FALSE]
    ELSE IF Stat(filename) = "dir"
    THEN [ret |-> "is a directory", aliases |-> aliases, set |-> FALSE]
    ELSE IF ~absOK
    THEN [ret |-> "failed to get absolute file path", aliases |-> aliases,
          set |-> FALSE]
    ELSE [ret |-> "ok",
          aliases |-> [n \in DOMAIN aliases \cup {alias} |->
                          IF n = alias THEN Join(Cwd, filename)
                          ELSE aliases[n]],
          set |-> TRUE]

\* the body of AddAlias without the test for a directory
AddAliasDirectory(aliases, alias, filename, absOK) ==
    IF alias \in DOMAIN aliases
    THEN [ret |-> "alias already defined", aliases |-> aliases,
          set |-> FALSE]
    ELSE IF Stat(filename) = "notexist"
    THEN [ret |-> "error with file", aliases |-> aliases, set |-> FALSE]
    ELSE IF ~absOK
    THEN [ret |-> "failed to get absolute file path", aliases |-> aliases,
          set |-> FALSE]
    ELSE [ret |-> "ok",
          aliases |-> [n \in DOMAIN aliases \cup {alias} |->
                          IF n = alias THEN Join(Cwd, filename)
                          ELSE aliases[n]],
          set |-> TRUE]

\* The body of AddAlias: what it reports, the alias table it leaves, and
\* whether it executed "e.changed = true"; absOK: filepath.Abs succeeds.
AddAliasBody(aliases, alias, filename, absOK) ==
    IF alias \in DOMAIN aliases
    THEN [ret |-> "alias already defined", aliases |-> aliases,
          set |-> FALSE]
    ELSE IF Stat(filename) = "notexist"
    THEN [ret |-> "error with file", aliases |-> aliases, set |-> FALSE]
    ELSE IF Stat(filename) = "dir"
    THEN [ret |-> "is a directory", aliases |-> aliases, set |-> FALSE]
    ELSE IF ~absOK
    THEN [ret |-> "failed to get absolute file path", aliases |-> aliases,
          set |-> FALSE]
    ELSE [ret |-> "ok",
          aliases |-> [n \in DOMAIN aliases \cup {alias} |->
                          IF n = alias THEN Join(Cwd, filename)
                          ELSE aliases[n]],
          set |-> TRUE]

\* AddAlias without "e.changed = true"
AddAliasCallNoFlag(alias, filename, absOK) ==
    LET r == AddAliasBody(Aliases, alias, filename, absOK)
    IN  /\ op' = "AddAlias"
        /\ args' = <<alias, filename>>
        /\ allowNewFiles' = FALSE
        /\ debugInit' = FALSE
        /\ extraArgs' = <<>>
        /\ recorded' = <<>>
        /\ stdout' = <<>>
        /\ Executable' = <<>>
        /\ ret' = r.ret
        /\ stderr' = IF r.ret = "ok" THEN <<>> ELSE <<r.ret>>
        /\ Aliases' = r.aliases
        /\ UNCHANGED <<changed, PreviousExecutions, historyLimit, scanVars,
                       offered>>

AddAliasCall(alias, filename, absOK) ==
    LET r == AddAliasBody(Aliases, alias, filename, absOK)
    IN  /\ op' = "AddAlias"
        /\ args' = <<alias, filename>>
        /\ allowNewFiles' = FALSE
        /\ debugInit' = FALSE
        /\ extraArgs' = <<>>
        /\ recorded' = <<>>
        /\ stdout' = <<>>
        /\ Executable' = <<>>
        /\ ret' = r.ret
        /\ stderr' = IF r.ret = "ok" THEN <<>> ELSE <<r.ret>>
        /\ Aliases' = r.aliases
        /\ changed' = IF r.set THEN TRUE ELSE changed
        /\ UNCHANGED <<PreviousExecutions, historyLimit, scanVars, offered>>

AddAlias ==
    \E alias \in AliasNames, filename \in AliasFiles, absOK \in BOOLEAN :
        AddAliasCall(alias, filename, absOK)

\* fmt.Sprintf("alias %q does not exist", alias)
DoesNotExist(alias) ==
    <<"a", "l", "i", "a", "s", " ", "\"">> \o alias
        \o <<"\"", " ", "d", "o", "e", "s", " ", "n", "o", "t", " ",
             "e", "x", "i", "s", "t">>

\* "for _, alias := range aliases" of DeleteAliases
RECURSIVE DeleteLoopAbort(_, _, _)
\* the loop that stops at the first alias that is not bound
DeleteLoopAbort(batch, i, st) ==
    IF i > Len(batch) THEN st
    ELSE IF batch[i] \notin DOMAIN st.aliases
    THEN [st EXCEPT !.stderr = Append(@, DoesNotExist(batch[i]))]
    ELSE DeleteLoopAbort(batch, i + 1,
                    [st EXCEPT !.aliases = [n \in DOMAIN @ \ {batch[i]} |->
                                               @[n]],
                               !.changed = TRUE])

RECURSIVE DeleteLoop(_, _, _)
DeleteLoop(batch, i, st) ==
    IF i > Len(batch) THEN st
    ELSE IF batch[i] \notin DOMAIN st.aliases
    THEN DeleteLoop(batch, i + 1,
                    [st EXCEPT !.stderr = Append(@, DoesNotExist(batch[i]))])
    ELSE DeleteLoop(batch, i + 1,
                    [st EXCEPT !.aliases = [n \in DOMAIN @ \ {batch[i]} |->
                                               @[n]],
                               !.changed = TRUE])

\* DeleteAliases that gives up at the first unknown alias
DeleteBatchAbort(batch, aliases, chg) ==
    DeleteLoopAbort(batch, 1,
                    [aliases |-> aliases, changed |-> chg, stderr |-> <<>>])

\* the whole loop of DeleteAliases from the state the call finds
DeleteBatch(batch, aliases, chg) ==
    DeleteLoop(batch, 1,
               [aliases |-> aliases, changed |-> chg, stderr |-> <<>>])

DeleteAliasesCall(batch) ==
    /\ LET st == DeleteBatch(batch, Aliases, changed)
       IN  /\ Aliases' = st.aliases
           /\ changed' = st.changed
           /\ stderr' = st.stderr
    /\ op' = "DeleteAliases"
    /\ args' = batch
    /\ allowNewFiles' = FALSE
    /\ debugInit' = FALSE
    /\ extraArgs' = <<>>
    /\ recorded' = <<>>
    /\ stdout' = <<>>
    /\ Executable' = <<>>
    /\ ret' = "ok"
    /\ UNCHANGED <<PreviousExecutions, historyLimit, scanVars, offered>>

DeleteAliases ==
    \E batch \in SeqsUpTo(AliasNames \cup {<<"u">>}, 2) :
        /\ Len(batch) >= 1
        /\ DeleteAliasesCall(batch)

\* the byte order of the characters alias names are made of
ByteOrder ==
    <<"0", "1", "2", "3", "4", "5", "6", "7", "8", "9", "a", "b", "c", "d",
      "e", "f", "g", "h", "i", "j", "k", "l", "m", "n", "o", "p", "q", "r",
      "s", "t", "u", "v", "w", "x", "y", "z">>

ByteOf(c) == CHOOSE i \in 1..Len(ByteOrder) : ByteOrder[i] = c

\* a < b for Go strings
RECURSIVE StringLess(_, _)
StringLess(a, b) ==
    IF b = <<>> THEN FALSE
    ELSE IF a = <<>> THEN TRUE
    ELSE IF a[1] # b[1] THEN ByteOf(a[1]) < ByteOf(b[1])
    ELSE StringLess(Tail(a), Tail(b))

\* sort.Strings on the keys of a map
RECURSIVE SortStrings(_)
SortStrings(keys) ==
    IF keys = {} THEN <<>>
    ELSE LET least == CHOOSE k \in keys :
                          \A o \in keys \ {k} : StringLess(k, o)
         IN  <<least>> \o SortStrings(keys \ {least})

\* the lines of ListAliases with the keys in descending order
ListLinesDescending(aliases) ==
    LET ks == SortStrings(DOMAIN aliases)
    IN  [i \in 1..Len(ks) |->
            ks[Len(ks) + 1 - i] \o <<":", " ">>
                \o aliases[ks[Len(ks) + 1 - i]]]

\* the lines of ListAliases: fmt.Sprintf("%s: %s", k, e.Aliases[k]) for the
\* sorted keys
ListLines(aliases) ==
    LET ks == SortStrings(DOMAIN aliases)
    IN  [i \in 1..Len(ks) |-> ks[i] \o <<":", " ">> \o aliases[ks[i]]]

ListAliases ==
    /\ op' = "ListAliases"
    /\ args' = <<>>
    /\ allowNewFiles' = FALSE
    /\ debugInit' = FALSE
    /\ extraArgs' = <<>>
    /\ recorded' = <<>>
    /\ stdout' = ListLines(Aliases)
    /\ stderr' = <<>>
    /\ Executable' = <<>>
    /\ ret' = "ok"
    /\ UNCHANGED <<stateVars, scanVars, offered>>

Next ==
    \/ OpenEditor
    \/ OpenEditorLegacy
    \/ RunHistorical
    \/ AddAlias
    \/ DeleteAliases
    \/ ListAliases

Spec == Init /\ [][Next]_vars

---------------------------------------------------------------------------
(* The interpreter specification: one token list, scanned token by token,  *)
(* then rendered by one of the three direct-mode renderers.                *)

InitInterp ==
    /\ Aliases \in LoadedAliases
    /\ PreviousExecutions = <<>>
    /\ changed = FALSE
    /\ historyLimit = MaxHistoryLimit
    /\ op = "Load"
    /\ args \in SeqsUpTo(Tok, MaxTokens)
    /\ allowNewFiles = FALSE
    /\ debugInit = FALSE
    /\ ret = "ok"
    /\ extraArgs = <<>>
    /\ Executable = <<>>
    /\ recorded = <<>>
    /\ stdout = <<>>
    /\ stderr = <<>>
    /\ pc = "scan"
    /\ files = <<>>
    /\ fo = <<>>
    /\ kinds = <<>>
    /\ offered = <<>>

\* one iteration of the pairing loop; kinds notes whether the token was
\* attached to the open fileOpts (fo is nil afterwards) or opened a new one
ScanToken ==
    /\ pc = "scan"
    /\ Len(kinds) < Len(args)
    /\ LET st == ScanStep([files |-> files, fo |-> fo], args[Len(kinds) + 1])
       IN  /\ files' = st.files
           /\ fo' = st.fo
           /\ kinds' = Append(kinds, IF st.fo = <<>> THEN "line" ELSE "name")
    /\ UNCHANGED <<stateVars, callVars, pc, offered>>

\* the end of the pairing loop
ScanEnd ==
    /\ pc = "scan"
    /\ Len(kinds) = Len(args)
    /\ files' = ScanFinish([files |-> files, fo |-> fo])
    /\ pc' = "paired"
    /\ UNCHANGED <<stateVars, callVars, fo, kinds, offered>>

\* basic(fos...) on the paired files
RenderBasic ==
    /\ pc = "paired"
    /\ op' = "basic"
    /\ Executable' = <<basic(files)>>
    /\ pc' = "rendered"
    /\ UNCHANGED <<stateVars, args, allowNewFiles, debugInit, ret, extraArgs,
                   recorded, stdout, stderr, files, fo, kinds, offered>>

\* a renderer that takes debugInit, on the paired files
RenderWith(name, r, dbg) ==
    /\ pc = "paired"
    /\ op' = name
    /\ debugInit' = dbg
    /\ Executable' = <<r.out>>
    /\ ret' = r.err
    /\ pc' = "rendered"
    /\ UNCHANGED <<stateVars, args, allowNewFiles, extraArgs, recorded,
                   stdout, stderr, files, fo, kinds, offered>>

RenderBasicDebug ==
    \E dbg \in BOOLEAN : RenderWith("basicDebug", basicDebug(dbg, files), dbg)

RenderBasicString ==
    \E dbg \in BOOLEAN :
        RenderWith("basicString", basicString(dbg, files), dbg)

RenderDaemonDebug ==
    \E dbg \in BOOLEAN :
        RenderWith("daemonDebug", daemonDebug(dbg, files), dbg)

RenderDaemonString ==
    \E dbg \in BOOLEAN :
        RenderWith("daemonString", daemonString(dbg, files), dbg)

\* the commands-based OpenEditor on the same tokens
InterpretLegacy ==
    /\ pc = "paired"
    /\ OpenEditorLegacyCall(args, TRUE)
    /\ pc' = "rendered"
    /\ UNCHANGED <<files, fo, kinds, offered>>

\* the (name, line) pairs of the command-based version: ergs[i] with il[i]
PairsOf(sl, il) ==
    [i \in 1..Len(sl) |->
        [name |-> sl[i], lineNumber |-> IF i <= Len(il) THEN il[i] ELSE 0]]

\* the command-based OpenEditor on the same tokens, with --new
InterpretCommand ==
    /\ pc = "scan"
    /\ kinds = <<>>
    /\ OpenEditorCall(args, TRUE)
    /\ files' = PairsOf(ParseArgs(args).sl, ParseArgs(args).il)
    /\ pc' = "rendered"
    /\ UNCHANGED <<fo, kinds, offered>>

NextInterp ==
    \/ ScanToken
    \/ ScanEnd
    \/ RenderBasic
    \/ RenderBasicDebug
    \/ RenderBasicString
    \/ RenderDaemonDebug
    \/ RenderDaemonString
    \/ InterpretLegacy
    \/ InterpretCommand

SpecInterp == InitInterp /\ [][NextInterp]_vars

---------------------------------------------------------------------------
(* The ledger specification: successive new invocations, each of a file    *)
(* name not used before, with every record the ledger ever held kept in    *)
(* offered.                                                                *)

InitLedger ==
    /\ Aliases = NoAliases
    /\ PreviousExecutions \in LoadedLedgers
    /\ changed = FALSE
    /\ historyLimit \in 1..MaxHistoryLimit
    /\ InitCall
    /\ pc = "idle"
    /\ files = <<>>
    /\ fo = <<>>
    /\ kinds = <<>>
    /\ offered = PreviousExecutions

FreshName == <<"g">> \o Itoa(Len(offered) + 1)

LedgerOpen ==
    /\ Len(offered) < MaxLoaded + MaxAppends
    /\ OpenEditorCall(<<FreshName>>, TRUE)
    /\ offered' = offered \o recorded'
    /\ UNCHANGED scanVars

LedgerOpenLegacy ==
    /\ Len(offered) < MaxLoaded + MaxAppends
    /\ OpenEditorLegacyCall(<<FreshName>>, TRUE)
    /\ offered' = offered \o recorded'
    /\ UNCHANGED scanVars

NextLedger ==
    \/ LedgerOpen
    \/ LedgerOpenLegacy

SpecLedger == InitLedger /\ [][NextLedger]_vars

---------------------------------------------------------------------------
(* Properties.                                                             *)

Min(a, b) == IF a < b THEN a ELSE b

\* the last n elements of s
LastN(s, n) == [i \in 1..n |-> s[Len(s) - n + i]]

Opens == {"OpenEditor", "OpenEditorLegacy"}

\* the last operation handed an editor argv back: no error, nothing left
\* unprocessed, and not the cd command
HandedArgv ==
    /\ op \in Opens
    /\ ret = "ok"
    /\ extraArgs = <<>>
    /\ Executable # <<>>
    /\ Executable[1][1] = EMACS

\* C1 as stated: in every reachable state the ledger holds at most
\* historyLimit records.
LedgerWithinLimit == Len(PreviousExecutions) <= historyLimit

\* C1, amended: every operation either leaves the ledger as it was or leaves
\* it with at most historyLimit records.
LedgerCutOnUpdate ==
    [][\/ PreviousExecutions' = PreviousExecutions
       \/ Len(PreviousExecutions') <= historyLimit']_vars

\* a ledger loaded over capacity was cut to capacity by a new invocation
WitnessLedgerCut ==
    /\ recorded # <<>>
    /\ Len(PreviousExecutions) = historyLimit
    /\ PreviousExecutions[1] = LoadedRecord(MaxLoaded)

\* C2: after any number of appends the ledger is the last
\* min(number of records offered, historyLimit) records ever offered to it,
\* in their order: the newest record is last, and a record that fell out of
\* that window is gone.
LedgerFIFO ==
    op # "Load" =>
        /\ PreviousExecutions =
               LastN(offered, Min(Len(offered), historyLimit))
        /\ recorded = <<PreviousExecutions[Len(PreviousExecutions)]>>
        /\ Len(offered) >= historyLimit =>
               Len(PreviousExecutions) = historyLimit
        /\ \A k \in 1..(Len(offered) - historyLimit) :
               \A i \in 1..Len(PreviousExecutions) :
                   PreviousExecutions[i] # offered[k]

\* a record was appended, historyLimit further records were appended, and
\* older records survive next to the newest
WitnessLedgerFIFO ==
    /\ op # "Load"
    /\ historyLimit >= 2
    /\ Len(offered) >= 2 * historyLimit + 1
    /\ Len(PreviousExecutions) = historyLimit

\* C3: OpenEditor with zero tokens and an empty ledger fails with "no
\* previous executions", hands back nothing, and leaves ledger, alias table
\* and dirty flag as they were.
RepeatLastEmptyFails ==
    [][(op' \in Opens /\ args' = <<>> /\ Len(PreviousExecutions) = 0) =>
           /\ ret' = "no previous executions"
           /\ Executable' = <<>>
           /\ PreviousExecutions' = PreviousExecutions
           /\ Aliases' = Aliases
           /\ changed' = changed]_vars

WitnessRepeatLastEmpty ==
    /\ op = "OpenEditor"
    /\ args = <<>>
    /\ PreviousExecutions = <<>>
    /\ ret = "no previous executions"

\* C4: OpenEditor with zero tokens and a non-empty ledger hands back exactly
\* the last record of the ledger and leaves ledger and dirty flag as they
\* were.
RepeatLastReturnsLast ==
    [][(op' \in Opens /\ args' = <<>> /\ Len(PreviousExecutions) > 0) =>
           /\ ret' = "ok"
           /\ Executable' =
                  <<PreviousExecutions[Len(PreviousExecutions)]>>
           /\ recorded' = <<>>
           /\ PreviousExecutions' = PreviousExecutions
           /\ changed' = changed]_vars

WitnessRepeatLast ==
    /\ op = "OpenEditor"
    /\ args = <<>>
    /\ ret = "ok"
    /\ Len(PreviousExecutions) >= 2
    /\ Executable = <<PreviousExecutions[Len(PreviousExecutions)]>>
    /\ PreviousExecutions[1] # PreviousExecutions[Len(PreviousExecutions)]

\* argv elements a fileOpts is rendered to
Width(f) == IF f.lineNumber # 0 THEN 2 ELSE 1

RECURSIVE WidthFrom(_, _)
WidthFrom(fs, j) == IF j > Len(fs) THEN 0 ELSE Width(fs[j]) + WidthFrom(fs, j + 1)

\* where the path of the j-th paired fileOpts stands in a reversed argv
PathPos(fs, j) == 2 + WidthFrom(fs, j)

Resolve(name) == IF name \in DOMAIN Aliases THEN Aliases[name] ELSE name

\* the scan of the pairing loop has run to its end in this state
Paired == pc = "paired" \/ (pc = "rendered" /\ op \in {"basic", "OpenEditorLegacy"})

\* C5: the pairing loop yields one fileOpts per token that was not attached
\* as a line number, and the paths stand in the argv in the reverse of the
\* pairing order.
InterpretCountAndOrder ==
    /\ Paired =>
           Len(files) = Len(args) -
                        Cardinality({i \in 1..Len(kinds) : kinds[i] = "line"})
    /\ (pc = "rendered" /\ op \in {"basic", "OpenEditorLegacy"}
            /\ ret = "ok") =>
           \A j \in 1..Len(files) :
               /\ PathPos(files, j) <= Len(Executable[1])
               /\ Executable[1][PathPos(files, j)] =
                      IF op = "basic" THEN files[j].name
                      ELSE Resolve(files[j].name)

WitnessInterpretOrder ==
    /\ pc = "rendered"
    /\ op = "OpenEditorLegacy"
    /\ Len(args) = 4
    /\ Len(files) = 3
    /\ files[2].lineNumber # 0
    /\ files[1].name # files[3].name

\* positions of the tokens that opened a fileOpts
NamePos == SelectSeq([i \in 1..Len(kinds) |-> i], LAMBDA i : kinds[i] = "name")

\* C6: a token is attached as a line number only if it parses as an integer
\* and the token before it opened a fileOpts; every fileOpts has the name of
\* the token that opened it and the line of the token attached right after
\* it, 0 if none was.
LineAttachesToPrecedingName ==
    /\ \A i \in 1..Len(kinds) :
           kinds[i] = "line" =>
               /\ i > 1
               /\ Atoi(args[i]).ok
               /\ kinds[i - 1] = "name"
    /\ Paired =>
           /\ Len(files) = Len(NamePos)
           /\ \A j \in 1..Len(files) :
                  LET p == NamePos[j]
                  IN  /\ files[j].name = args[p]
                      /\ files[j].lineNumber =
                             IF p < Len(kinds) /\ kinds[p + 1] = "line"
                             THEN Atoi(args[p + 1]).v
                             ELSE 0

\* an integer right after an attached integer became a file name
WitnessIntegerAsName ==
    /\ pc = "paired"
    /\ Len(kinds) >= 3
    /\ kinds[2] = "line"
    /\ kinds[3] = "name"
    /\ Atoi(args[3]).ok
    /\ Atoi(args[1]).ok

\* C7: the direct-mode argv is emacs, --no-window-system, then per fileOpts
\* in reversed pairing order "+<line>" (only when the line is not 0)
\* directly followed by the path.
DirectArgvLayout ==
    (pc = "rendered" /\ op \in {"basic", "OpenEditor"} /\ ret = "ok") =>
        LET argv == Executable[1]
        IN  /\ Len(argv) = PathPos(files, 1)
            /\ argv[1] = EMACS
            /\ argv[2] = NWS
            /\ \A j \in 1..Len(files) :
                   /\ argv[PathPos(files, j)] = files[j].name
                   /\ files[j].lineNumber # 0 =>
                          argv[PathPos(files, j) - 1] =
                              <<"+">> \o Itoa(files[j].lineNumber)

\* specs {a, 0}, {b, 32} rendered as emacs --no-window-system +32 b a
WitnessDirectArgv ==
    /\ pc = "rendered"
    /\ op = "basic"
    /\ files = <<[name |-> <<"a">>, lineNumber |-> 0],
                 [name |-> <<"b">>, lineNumber |-> 32]>>
    /\ Executable = <<<<EMACS, NWS, <<"+", "3", "2">>, <<"b">>, <<"a">>>>>>

\* the last OpenEditor was given file names and not a lone directory
FileInvocation(tokens) ==
    LET sl == ParseArgs(tokens).sl
    IN  /\ Len(sl) > 0
        /\ ~(Len(sl) = 1 /\ Stat(sl[1]) = "dir")

NewInvocationRecorded ==
    [][(HandedArgv' /\ Len(args') > 0) =>
           /\ Len(recorded') = 1
           /\ PreviousExecutions' =
                  LastN(Append(PreviousExecutions, recorded'[1]),
                        Min(Len(PreviousExecutions) + 1, historyLimit))
           /\ changed']_vars

\* C10: the ledger changes only in a new invocation that handed an editor
\* argv back, and then the whole record is its last entry.
LedgerChangesOnlyOnSuccess ==
    [][PreviousExecutions' # PreviousExecutions =>
           /\ HandedArgv'
           /\ Len(args') > 0
           /\ Len(recorded') = 1
           /\ PreviousExecutions'[Len(PreviousExecutions')] = recorded'[1]
           /\ changed']_vars

\* an invocation with unprocessed arguments left the ledger alone
WitnessExtraArgsNoRecord ==
    /\ op = "OpenEditor"
    /\ extraArgs # <<>>
    /\ ret = "ok"
    /\ recorded = <<>>
    /\ Executable # <<>>

---------------------------------------------------------------------------
(* Replaying and listing the ledger.                                       *)

\* the index a RunHistorical call was given, read back from its token
GivenIndex(tokens) == Atoi(tokens[1]).v

\* C11: RunHistorical with index i hands back a record exactly when
\* 0 <= i < len(ledger); the record is the one at position len-1-i counted
\* from the oldest (position len-i counting from one); an index >= len ends
\* in the larger-than-list error and a negative one in a validation error,
\* both with no executable; the session state is left alone.
HistoricalIndexing ==
    [][(op' = "RunHistorical" /\ args' # <<>>) =>
        LET i == GivenIndex(args')
            n == Len(PreviousExecutions)
        IN  /\ Executable' # <<>> <=> (0 <= i /\ i < n)
            /\ (0 <= i /\ i < n) =>
                   /\ Executable' = <<PreviousExecutions[n - i]>>
                   /\ ret' = "ok"
            /\ i >= n => /\ ret' = "larger than list of stored commands"
                         /\ Executable' = <<>>
            /\ i < 0 => /\ ret' = "validation failed"
                        /\ Executable' = <<>>
            /\ UNCHANGED stateVars]_vars

\* an index in range, not the newest, of a ledger of two different records
WitnessHistoricalIndexing ==
    /\ op = "RunHistorical"
    /\ args # <<>>
    /\ GivenIndex(args) = 1
    /\ Len(PreviousExecutions) >= 2
    /\ PreviousExecutions[Len(PreviousExecutions)]
           # PreviousExecutions[Len(PreviousExecutions) - 1]
    /\ Executable = <<PreviousExecutions[Len(PreviousExecutions) - 1]>>

\* the text of a listed line before and after its first ": "
RECURSIVE ColonPos(_, _)
ColonPos(line, k) ==
    IF k > Len(line) THEN 0
    ELSE IF line[k] = ":" THEN k
    ELSE ColonPos(line, k + 1)

LineNumberText(line) ==
    SelectSeq(SubSeq(line, 1, ColonPos(line, 1) - 1), LAMBDA c : c # " ")

LineCommandText(line) == SubSeq(line, ColonPos(line, 1) + 2, Len(line))

\* C12: RunHistorical without an index prints one line per record, oldest
\* first; the k-th line (from zero) carries the number len-1-k, i.e. the
\* index that replays that record, followed by the record's words; it hands
\* back no executable and leaves the session state alone.
HistoricalListing ==
    [][(op' = "RunHistorical" /\ args' = <<>>) =>
        LET n == Len(PreviousExecutions)
        IN  /\ Len(stdout') = n
            /\ \A k \in 1..n :
                   /\ Atoi(LineNumberText(stdout'[k])) = [ok |-> TRUE,
                                                          v |-> n - k]
                   /\ LineCommandText(stdout'[k])
                          = JoinStrings(PreviousExecutions[k], <<" ">>)
            /\ Executable' = <<>>
            /\ ret' = "ok"
            /\ UNCHANGED stateVars]_vars

\* a listing of at least two different records
WitnessHistoricalListing ==
    /\ op = "RunHistorical"
    /\ args = <<>>
    /\ Len(stdout) >= 2
    /\ stdout[1] # stdout[2]
    /\ LineCommandText(stdout[1]) # LineCommandText(stdout[2])

---------------------------------------------------------------------------
(* The change-directory outcome.                                           *)

\* the last operation handed back a change-directory command
CdOutput == Executable # <<>> /\ Executable[1][1] = CD

\* C13: OpenEditor hands back a change-directory command exactly when one
\* token was given and it names a directory; the command is then exactly
\* ("cd", token) and nothing is recorded.
CdIffSingleDirectoryToken ==
    op = "OpenEditor" =>
        /\ CdOutput <=> (Len(args) = 1 /\ Stat(args[1]) = "dir")
        /\ CdOutput => /\ Executable = <<<<CD, args[1]>>>>
                       /\ recorded = <<>>

---------------------------------------------------------------------------
(* The alias specification: the three alias operations on a table of up   *)
(* to three names, one of them a prefix of another.                       *)

MaxBatch == 3

AliasNamesWide == {<<"s">>, <<"t">>, <<"s", "a">>}
AliasFilesWide == {<<"a">>, <<"b">>, <<"d">>, <<"n">>}

InitAlias ==
    /\ InitCall
    /\ Aliases \in LoadedAliases
    /\ PreviousExecutions = <<>>
    /\ changed = FALSE
    /\ historyLimit = MaxHistoryLimit
    /\ pc = "idle"
    /\ files = <<>>
    /\ fo = <<>>
    /\ kinds = <<>>
    /\ offered = <<>>

AliasAdd ==
    \E alias \in AliasNamesWide, filename \in AliasFilesWide,
       absOK \in BOOLEAN :
        AddAliasCall(alias, filename, absOK)

AliasDelete ==
    \E batch \in SeqsUpTo(AliasNamesWide \cup {<<"u">>}, MaxBatch) :
        /\ Len(batch) >= 1
        /\ DeleteAliasesCall(batch)

NextAlias ==
    \/ AliasAdd
    \/ AliasDelete
    \/ ListAliases

SpecAlias == InitAlias /\ [][NextAlias]_vars

\* C14: AddAlias for a name that is already bound is rejected with the
\* alias-already-defined error; the alias table after the call is the table
\* before it and the call does not set the dirty flag.
AddAliasBoundRejected ==
    [][(op' = "AddAlias" /\ args'[1] \in DOMAIN Aliases) =>
        /\ ret' = "alias already defined"
        /\ stderr' # <<>>
        /\ Aliases' = Aliases
        /\ changed' = changed]_vars

\* a rejected AddAlias that named another file than the one bound, with the
\* dirty flag still unset
WitnessAddAliasBound ==
    /\ op = "AddAlias"
    /\ ret = "alias already defined"
    /\ args[1] \in DOMAIN Aliases
    /\ Stat(args[2]) = "file"
    /\ Aliases[args[1]] # Join(Cwd, args[2])
    /\ ~changed

Range(seq) == {seq[i] : i \in 1..Len(seq)}

\* the positions of a batch whose name is not bound when its turn comes:
\* not bound before the call, or named earlier in the batch
UnboundAt(batch, aliases) ==
    SelectSeq([i \in 1..Len(batch) |-> i],
              LAMBDA i : \/ batch[i] \notin DOMAIN aliases
                         \/ \E j \in 1..(i - 1) : batch[j] = batch[i])

\* C15: DeleteAliases reports success on every batch; afterwards no name of
\* the batch is bound, every other binding is as before, and the warnings
\* are, in batch order, one for each element that was not bound when its
\* turn came, and none for an element that was deleted.
DeleteAliasesBatch ==
    [][op' = "DeleteAliases" =>
        LET batch == args'
            w == UnboundAt(batch, Aliases)
        IN  /\ ret' = "ok"
            /\ DOMAIN Aliases' = DOMAIN Aliases \ Range(batch)
            /\ \A n \in DOMAIN Aliases' : Aliases'[n] = Aliases[n]
            /\ stderr' = [k \in 1..Len(w) |-> DoesNotExist(batch[w[k]])]]_vars

\* a batch of an unbound name, a bound one, and the bound one again, with
\* another binding that stays
WitnessDeleteAliasesBatch ==
    /\ op = "DeleteAliases"
    /\ Len(args) = 3
    /\ args[2] = args[3]
    /\ args[1] # args[2]
    /\ stderr = <<DoesNotExist(args[1]), DoesNotExist(args[3])>>
    /\ Aliases # NoAliases
    /\ changed

---------------------------------------------------------------------------
(* The dirty flag.                                                         *)

\* the step changed the alias table or appended to the ledger
Modified == Aliases' # Aliases \/ recorded' # <<>>

\* C16: after every operation the dirty flag is the flag before it OR
\* (the operation changed the alias table or appended to the ledger).  It is
\* set by a successful AddAlias, by a DeleteAliases that removed a name and
\* by every ledger append; ListAliases, RunHistorical, repeat-last, the
\* change-directory outcome, a rejected AddAlias, a DeleteAliases of unknown
\* names only and every failed invocation leave it as it was.
DirtyFlag ==
    [][/\ changed' = (changed \/ Modified)
       /\ (op' = "AddAlias" /\ ret' = "ok") => changed'
       /\ (op' = "DeleteAliases" /\ Range(args') \cap DOMAIN Aliases # {})
              => changed'
       /\ recorded' # <<>> => changed'
       /\ PreviousExecutions' # PreviousExecutions => changed'
       /\ (\/ op' \in {"ListAliases", "RunHistorical"}
           \/ (op' \in Opens /\ args' = <<>>)
           \/ CdOutput'
           \/ (op' = "AddAlias" /\ ret' # "ok")
           \/ (op' = "DeleteAliases"
                 /\ Range(args') \cap DOMAIN Aliases = {})
           \/ ret' # "ok") => changed' = changed]_vars

\* the flag was set by alias operations alone: the ledger is still empty,
\* and the last batch removed one name and warned about another
WitnessDirtyFlag ==
    /\ op = "DeleteAliases"
    /\ changed
    /\ PreviousExecutions = <<>>
    /\ Aliases = NoAliases
    /\ Len(args) = 2
    /\ Len(stderr) = 1

---------------------------------------------------------------------------
(* The record and the argv of one invocation.                              *)

\* C17 as stated: the record appended to the ledger is element for element
\* the argv handed back by the same invocation.
RecordIsArgv ==
    recorded # <<>> => recorded = Executable

\* C17: the record appended by the command-based OpenEditor is the argv it
\* hands back; the record appended by the commands-based OpenEditor has the
\* length of the argv it hands back and differs from it only at the paths
\* of the files that were not named by an alias, which stand in the record
\* joined to the working directory.
RecordFollowsArgv ==
    recorded # <<>> =>
        /\ Len(recorded) = 1
        /\ Len(Executable) = 1
        /\ op = "OpenEditor" => recorded[1] = Executable[1]
        /\ op = "OpenEditorLegacy" =>
               /\ Len(recorded[1]) = Len(Executable[1])
               /\ \A k \in 1..Len(Executable[1]) :
                      recorded[1][k] =
                          IF \E j \in 1..Len(files) :
                                 /\ PathPos(files, j) = k
                                 /\ files[j].name \notin DOMAIN Aliases
                          THEN Join(Cwd, Executable[1][k])
                          ELSE Executable[1][k]

\* a commands-based invocation of an alias and a plain name with a line
\* number: the record differs from the argv at the plain name only
WitnessRecordFollowsArgv ==
    /\ op = "OpenEditorLegacy"
    /\ recorded # <<>>
    /\ Len(files) = 2
    /\ files[1].name \in DOMAIN Aliases
    /\ files[2].name \notin DOMAIN Aliases
    /\ files[2].lineNumber # 0
    /\ recorded[1][PathPos(files, 1)] = Executable[1][PathPos(files, 1)]
    /\ recorded[1][PathPos(files, 2)] # Executable[1][PathPos(files, 2)]

---------------------------------------------------------------------------
(* Equal invocations.                                                      *)

\* the step is a successful new invocation of the command-based OpenEditor
\* that repeats the successful new invocation before it: same argv
SameInvocationAgain ==
    /\ op = "OpenEditor"
    /\ HandedArgv
    /\ args # <<>>
    /\ op' = "OpenEditor"
    /\ HandedArgv'
    /\ args' # <<>>
    /\ Executable' = Executable

\* C18: the ledger does not deduplicate.  The second of two successive
\* successful invocations with the same argv appends its record again: the
\* ledger grows by one more entry while it has room, and whenever the limit
\* allows two entries the two newest entries are equal.
NoDeduplication ==
    [][SameInvocationAgain =>
        LET n == Len(PreviousExecutions)
            m == Len(PreviousExecutions')
        IN  /\ recorded' = Executable'
            /\ PreviousExecutions[n] = Executable[1]
            /\ PreviousExecutions'[m] = recorded'[1]
            /\ n < historyLimit => m = n + 1
            /\ historyLimit >= 2 =>
                   /\ m >= 2
                   /\ PreviousExecutions'[m - 1] = PreviousExecutions'[m]]_vars

\* two equal newest entries, the newer one appended by the last operation,
\* in a ledger that holds nothing else
WitnessNoDeduplication ==
    /\ op = "OpenEditor"
    /\ recorded # <<>>
    /\ Len(PreviousExecutions) = 2
    /\ PreviousExecutions[1] = PreviousExecutions[2]
    /\ PreviousExecutions[2] = recorded[1]

---------------------------------------------------------------------------
(* The renderers with debugInit.                                           *)

DaemonOps == {"daemonDebug", "daemonString"}
DirectOps == {"basicDebug", "basicString"}

\* C19: rendering in daemon mode with debugInit set fails with the
\* not-allowed error and returns no command, whatever the files are;
\* rendering in direct mode takes the same option and never fails.
DebugInitIncompatible ==
    /\ (pc = "rendered" /\ op \in DaemonOps /\ debugInit) =>
           /\ ret = NOTALLOWED
           /\ Executable = <<<<>>>>
    /\ (pc = "rendered" /\ op \in DaemonOps /\ ~debugInit) =>
           /\ ret = "ok"
           /\ Executable[1] # <<>>
    /\ (pc = "rendered" /\ op \in DirectOps) =>
           /\ ret = "ok"
           /\ Executable[1] # <<>>
           /\ op = "basicDebug" =>
                  (debugInit <=> \E k \in 1..Len(Executable[1]) :
                                     Executable[1][k] = DEBUGINIT)

\* a daemon rendering of two files, one with a line number, refused
WitnessDebugInitIncompatible ==
    /\ pc = "rendered"
    /\ op = "daemonDebug"
    /\ debugInit
    /\ ret = NOTALLOWED
    /\ Len(files) = 2
    /\ files[2].lineNumber # 0

\* the text between "'(progn " and ")'" of a daemon rendering
PrognBody(out) ==
    LET text == IF op = "daemonDebug" THEN out[4]
                ELSE SubSeq(out, Len(EMACSCLIENT) + 8, Len(out))
    IN  SubSeq(text, 9, Len(text) - 2)

\* a text cut after each closing parenthesis
RECURSIVE SplitExprs(_, _, _)
SplitExprs(text, cur, acc) ==
    IF text = <<>> THEN (IF cur = <<>> THEN acc ELSE Append(acc, cur))
    ELSE IF text[1] = ")"
    THEN SplitExprs(Tail(text), <<>>, Append(acc, Append(cur, ")")))
    ELSE SplitExprs(Tail(text), Append(cur, text[1]), acc)

HasPrefix(text, p) == Len(text) >= Len(p) /\ SubSeq(text, 1, Len(p)) = p

IsOpen(e) == HasPrefix(e, <<"(", "f", "i", "n", "d", "-", "f", "i", "l", "e">>)
IsGoto(e) == HasPrefix(e, <<"(", "g", "o", "t", "o", "-", "l", "i", "n", "e">>)

\* C20: a daemon rendering holds exactly one open-file expression per file,
\* in the order given; the first is a find-file, every later one a
\* find-file-other-window; a goto-line expression with the file's line
\* follows an open-file expression immediately exactly when that line is
\* not zero, and no goto-line stands anywhere else.
DaemonExpressions ==
    (pc = "rendered" /\ op \in DaemonOps /\ ~debugInit) =>
        LET es    == SplitExprs(PrognBody(Executable[1]), <<>>, <<>>)
            opens == SelectSeq([k \in 1..Len(es) |-> k],
                               LAMBDA k : IsOpen(es[k]))
            gotos == {k \in 1..Len(es) : IsGoto(es[k])}
        IN  /\ Len(opens) = Len(files)
            /\ \A j \in 1..Len(files) :
                   /\ es[opens[j]] =
                          FindExpr(IF j = 1 THEN FINDFILE
                                   ELSE FINDFILEOTHERWINDOW, files[j].name)
                   /\ (opens[j] + 1) \in gotos <=> files[j].lineNumber # 0
                   /\ files[j].lineNumber # 0 =>
                          es[opens[j] + 1] = GotoLine(files[j].lineNumber)
            /\ \A k \in gotos : \E j \in 1..Len(files) : opens[j] + 1 = k

\* three files rendered as one string, only the second with a line
WitnessDaemonExpressions ==
    /\ pc = "rendered"
    /\ op = "daemonString"
    /\ ~debugInit
    /\ Len(files) = 3
    /\ files[1].lineNumber = 0
    /\ files[2].lineNumber # 0
    /\ files[3].lineNumber = 0
    /\ Len(SplitExprs(PrognBody(Executable[1]), <<>>, <<>>)) = 4

\* the quoted argument of a daemon rendering
ClientArgument(out) ==
    IF op = "daemonDebug" THEN out[4]
    ELSE SubSeq(out, Len(EMACSCLIENT) + 8, Len(out))

IsSplit(e) ==
    HasPrefix(e, <<"(", "o", "t", "h", "e", "r", "-", "w", "i", "n", "d",
                   "o", "w">>)

\* C21: a daemon rendering holds the window-split expression (other-window,
\* in the code "(other-window 1)") exactly when two files are opened; it is
\* then the last expression; and all expressions stand inside one
\* "(progn ...)" that is quoted as one argument after emacsclient -t -e.
DaemonWindowSplit ==
    (pc = "rendered" /\ op \in DaemonOps /\ ~debugInit) =>
        LET out    == Executable[1]
            arg    == ClientArgument(out)
            es     == SplitExprs(PrognBody(out), <<>>, <<>>)
            splits == {k \in 1..Len(es) : IsSplit(es[k])}
        IN  /\ splits # {} <=> Len(files) = 2
            /\ splits \subseteq {Len(es)}
            /\ \A k \in splits : es[k] = OTHERWINDOW1
            /\ arg = <<"'", "(", "p", "r", "o", "g", "n", " ">>
                         \o JoinStrings(es, <<>>) \o <<")", "'">>
            /\ Cardinality({k \in 1..Len(arg) : arg[k] = "'"}) = 2
            /\ \A k \in 1..Len(es) : es[k][1] = "(" /\ es[k][Len(es[k])] = ")"
            /\ op = "daemonDebug" =>
                   /\ Len(out) = 4
                   /\ SubSeq(out, 1, 3) = <<EMACSCLIENT, <<"-", "t">>,
                                            <<"-", "e">>>>
            /\ op = "daemonString" =>
                   out = EMACSCLIENT \o <<" ", "-", "t", " ", "-", "e", " ">>
                             \o arg

\* two files, the second with a line: the split comes after the goto-line
WitnessDaemonWindowSplit ==
    /\ pc = "rendered"
    /\ op = "daemonDebug"
    /\ ~debugInit
    /\ Len(files) = 2
    /\ files[2].lineNumber # 0
    /\ LET es == SplitExprs(PrognBody(Executable[1]), <<>>, <<>>)
       IN  Len(es) = 4 /\ es[4] = OTHERWINDOW1 /\ IsGoto(es[3])

---------------------------------------------------------------------------
(* The load specification: Load called on a receiver that is in use.       *)

\* the strings Load is given: the empty string, a text that is not JSON,
\* and three documents, named by a letter: one with an alias table, one
\* with a ledger, one with both fields null
LoadInputs == {<<>>, <<"}">>, <<"A">>, <<"P">>, <<"N">>}

\* what encoding/json finds in the string: whether it is valid and, per
\* field, <<>> when the field is absent or <<value>> when it is there
Decode(jsn) ==
    IF jsn = <<"A">>
    THEN [valid |-> TRUE,
          Aliases |-> <<[n \in {<<"t">>} |-> Join(Cwd, <<"b">>)]>>,
          PreviousExecutions |-> <<>>]
    ELSE IF jsn = <<"P">>
    THEN [valid |-> TRUE, Aliases |-> <<>>,
          PreviousExecutions |-> <<<<LoadedRecord(1)>>>>]
    ELSE IF jsn = <<"N">>
    THEN [valid |-> TRUE, Aliases |-> <<NoAliases>>,
          PreviousExecutions |-> <<<<>>>>]
    ELSE [valid |-> FALSE, Aliases |-> <<>>, PreviousExecutions |-> <<>>]

\* json.Unmarshal([]byte(jsn), e) for a valid document: a map of the
\* document is merged into a map that is there, null empties it; a slice
\* is replaced; a field the document does not hold is left alone
Unmarshal(doc, aliases, pe) ==
    [Aliases |->
         IF doc.Aliases = <<>> THEN aliases
         ELSE IF doc.Aliases[1] = NoAliases THEN NoAliases
         ELSE [n \in DOMAIN aliases \cup DOMAIN doc.Aliases[1] |->
                  IF n \in DOMAIN doc.Aliases[1] THEN doc.Aliases[1][n]
                  ELSE aliases[n]],
     PreviousExecutions |->
         IF doc.PreviousExecutions = <<>> THEN pe
         ELSE doc.PreviousExecutions[1]]

\* Load: "e = &Emacs{}" points the local variable e to a new object and
\* leaves the receiver as it is
Load ==
    \E jsn \in LoadInputs :
        /\ op' = "Load"
        /\ args' = <<jsn>>
        /\ allowNewFiles' = FALSE
        /\ debugInit' = FALSE
        /\ extraArgs' = <<>>
        /\ recorded' = <<>>
        /\ stdout' = <<>>
        /\ stderr' = <<>>
        /\ Executable' = <<>>
        /\ IF jsn = <<>>
           THEN /\ ret' = "ok"
                /\ UNCHANGED <<Aliases, PreviousExecutions>>
           ELSE IF ~Decode(jsn).valid
           THEN /\ ret' = "failed to unmarshal emacs json"
                /\ UNCHANGED <<Aliases, PreviousExecutions>>
           ELSE LET e == Unmarshal(Decode(jsn), Aliases, PreviousExecutions)
                IN  /\ ret' = "ok"
                    /\ Aliases' = e.Aliases
                    /\ PreviousExecutions' = e.PreviousExecutions
        /\ UNCHANGED <<changed, historyLimit, scanVars, offered>>

NextLoad ==
    \/ Load
    \/ AddAlias
    \/ DeleteAliases

SpecLoad == Init /\ [][NextLoad]_vars

\* C22: Load called with the empty string returns no error and leaves the
\* receiver with an empty alias table and an empty ledger, whatever it held
\* before the call.
LoadEmptyIsFresh ==
    (op = "Load" /\ args = <<<<>>>>) =>
        /\ ret = "ok"
        /\ Aliases = NoAliases
        /\ PreviousExecutions = <<>>

---------------------------------------------------------------------------
(* More on the alias operations.                                           *)

\* C23: AddAlias for an unbound name fails and leaves the alias table and
\* the dirty flag as they were whenever the file cannot be stat'ed, is a
\* directory, or its absolute path cannot be resolved; the failure is
\* reported once.  The last line says the same of the body of AddAlias for
\* every unbound name and every file when filepath.Abs fails.
AddAliasFailures ==
    [][(op' = "AddAlias" /\ args'[1] \notin DOMAIN Aliases) =>
        /\ Stat(args'[2]) = "notexist" => ret' = "error with file"
        /\ Stat(args'[2]) = "dir" => ret' = "is a directory"
        /\ ret' = "ok" => Stat(args'[2]) = "file"
        /\ ret' # "ok" => /\ Aliases' = Aliases
                          /\ changed' = changed
                          /\ stderr' = <<ret'>>
        /\ \A a \in AliasNamesWide \ DOMAIN Aliases, f \in AliasFilesWide :
               LET r == AddAliasBody(Aliases, a, f, FALSE)
               IN  r.ret # "ok" /\ r.aliases = Aliases /\ ~r.set]_vars

\* a directory refused for an unbound name while another name is bound and
\* the flag is set
WitnessAddAliasFailures ==
    /\ op = "AddAlias"
    /\ ret = "is a directory"
    /\ args[1] \notin DOMAIN Aliases
    /\ Aliases # NoAliases
    /\ changed

\* the alias name a listed line starts with
LineName(line) == SubSeq(line, 1, ColonPos(line, 1) - 1)

\* C24: ListAliases prints one line per binding, in ascending order of the
\* alias name, each line the name followed by ": " and the stored value; it
\* prints nothing for an empty table and leaves table and dirty flag alone.
ListAliasesSorted ==
    [][op' = "ListAliases" =>
        /\ Len(stdout') = Cardinality(DOMAIN Aliases)
        /\ {LineName(stdout'[k]) : k \in 1..Len(stdout')} = DOMAIN Aliases
        /\ \A k \in 1..Len(stdout') :
               LineCommandText(stdout'[k]) = Aliases[LineName(stdout'[k])]
        /\ \A k \in 1..(Len(stdout') - 1) :
               StringLess(LineName(stdout'[k]), LineName(stdout'[k + 1]))
        /\ ret' = "ok"
        /\ Executable' = <<>>
        /\ UNCHANGED stateVars]_vars

\* three bindings listed as s, sa, t, with different values
WitnessListAliasesSorted ==
    /\ op = "ListAliases"
    /\ Len(stdout) = 3
    /\ LineName(stdout[1]) = <<"s">>
    /\ LineName(stdout[2]) = <<"s", "a">>
    /\ LineName(stdout[3]) = <<"t">>
    /\ LineCommandText(stdout[1]) # LineCommandText(stdout[3])

---------------------------------------------------------------------------
(* The argument nodes of the command-based version.                        *)

\* the paths of an argv: its elements after the two fixed ones that are not
\* line flags
ArgvPaths(argv) ==
    SelectSeq(SubSeq(argv, 3, Len(argv)), LAMBDA x : x[1] # "+")

\* C25: the argument nodes never accept more than two filenames: OpenEditor
\* is handed at most two names and the argv it renders holds at most two
\* paths, whatever line-number tokens stand between the filename tokens.
TwoFilenamesAtMost ==
    (pc = "rendered" /\ op = "OpenEditor") =>
        /\ Len(files) <= 2
        /\ Executable # <<>> => Len(ArgvPaths(Executable[1])) <= 2

\* the argument data after the first m tokens
ParsedUpTo(m) == ParseArgs(SubSeq(args, 1, m))

\* the m-th token was consumed by the LINE_NUMBER node
ConsumedAsLine(m) ==
    /\ ParsedUpTo(m).rest = <<>>
    /\ ParsedUpTo(m).il # ParsedUpTo(m - 1).il

\* C26: after every integer token is processed the LINE_NUMBER list is as
\* long as the filename list, its last entry the integer, with 0 at the
\* positions it had to fill; OpenEditor pairs filename i with entry i (0
\* past the end of the list); and the line given after the k-th filename is
\* rendered right in front of that filename's path.
LineNumberList ==
    (pc = "rendered" /\ op = "OpenEditor") =>
        /\ \A m \in 1..Len(args) :
               ConsumedAsLine(m) =>
                   LET q  == ParsedUpTo(m)
                       q0 == ParsedUpTo(m - 1)
                       k  == Len(q.sl)
                   IN  /\ q.sl = q0.sl
                       /\ k >= 1
                       /\ Len(q.il) = k
                       /\ q.il[k] = Atoi(args[m]).v
                       /\ \A i \in 1..Len(q0.il) : q.il[i] = q0.il[i]
                       /\ \A i \in (Len(q0.il) + 1)..(k - 1) : q.il[i] = 0
                       /\ (Executable # <<>> /\ q.il[k] # 0) =>
                              /\ Executable[1][PathPos(files, k)] = q.sl[k]
                              /\ Executable[1][PathPos(files, k) - 1]
                                     = LineFlag(q.il[k])
        /\ LET p == ParseArgs(args)
           IN  /\ Len(files) = Len(p.sl)
               /\ \A i \in 1..Len(files) :
                      /\ files[i].name = p.sl[i]
                      /\ files[i].lineNumber =
                             IF i <= Len(p.il) THEN p.il[i] ELSE 0
                      /\ Executable # <<>> =>
                             /\ Executable[1][PathPos(files, i)] = p.sl[i]
                             /\ files[i].lineNumber = 0 =>
                                    Executable[1][PathPos(files, i) - 1][1]
                                        # "+"

\* two filenames, only the second with a line number
WitnessLineNumberList ==
    /\ pc = "rendered"
    /\ op = "OpenEditor"
    /\ Len(args) = 3
    /\ ConsumedAsLine(3)
    /\ Len(files) = 2
    /\ files[1].lineNumber = 0
    /\ files[2].lineNumber # 0
    /\ Executable # <<>>
    /\ Executable[1][3] = LineFlag(files[2].lineNumber)

---------------------------------------------------------------------------
(* Tokens and argv elements in direct mode.                                *)

\* a direct-mode rendering of the scanned tokens that succeeded
DirectRendered ==
    /\ pc = "rendered"
    /\ \/ op = "basic"
       \/ (op = "OpenEditorLegacy" /\ args # <<>> /\ ret = "ok")

\* the tokens that were consumed as a line number of value 0
ZeroLines == {i \in 1..Len(kinds) : kinds[i] = "line" /\ Atoi(args[i]).v = 0}

\* C27 as stated: the rendered argv has the two fixed elements and one
\* element per input token.
NoTokenLost ==
    DirectRendered => Len(Executable[1]) = 2 + Len(args)

\* C27: the rendered argv has the two fixed elements and one element per
\* input token except the tokens consumed as a line number of value 0,
\* which yield none: the path for each token consumed as a filename, "+N"
\* for each token consumed as a line number N other than 0.
NoTokenLostButZero ==
    DirectRendered =>
        LET argv == Executable[1]
        IN  /\ Len(argv) = 2 + Len(args) - Cardinality(ZeroLines)
            /\ \A i \in 1..Len(args) :
                   /\ (kinds[i] = "line" /\ i \notin ZeroLines) =>
                          \E k \in 3..Len(argv) :
                              argv[k] = LineFlag(Atoi(args[i]).v)
                   /\ kinds[i] = "name" =>
                          \E k \in 3..Len(argv) :
                              argv[k] = IF op = "basic" THEN args[i]
                                        ELSE Resolve(args[i])

\* four tokens, one of them a line number 0, rendered as five elements
WitnessNoTokenLostButZero ==
    /\ DirectRendered
    /\ op = "basic"
    /\ Len(args) = 4
    /\ Cardinality(ZeroLines) = 1
    /\ \E i \in 1..4 : kinds[i] = "line" /\ i \notin ZeroLines
    /\ Len(Executable[1]) = 5

---------------------------------------------------------------------------
(* The two interpreters.                                                   *)

\* C28: for every token list of at most four tokens of which the pairing
\* loop takes at most two as filenames, the argument nodes of the
\* command-based version consume every token and yield the same (name,
\* line) pairs in the same order as the pairing loop of the commands-based
\* version, and the argv rendered by the command-based OpenEditor is the
\* argv the commands-based rendering gives without aliases.
InterpretersAgree ==
    (pc = "rendered" /\ op = "OpenEditor" /\ args # <<>>
        /\ Len(args) <= MaxTokens /\ Len(PairTokens(args)) <= 2) =>
        /\ extraArgs = <<>>
        /\ files = PairTokens(args)
        /\ ret = "ok"
        /\ Executable = <<RenderLegacy(PairTokens(args), NoAliases).command>>
        /\ Executable = <<basic(PairTokens(args))>>

\* four tokens, two filenames with a line number each
WitnessInterpretersAgree ==
    /\ pc = "rendered"
    /\ op = "OpenEditor"
    /\ Len(args) = 4
    /\ Len(files) = 2
    /\ files[1].lineNumber # 0
    /\ files[2].lineNumber # 0
    /\ files[1].lineNumber # files[2].lineNumber
    /\ files = PairTokens(args)

---------------------------------------------------------------------------
(* Listing, replay and repeat-last.                                        *)

\* the listed lines that carry the number n
LinesNumbered(lines, n) ==
    {k \in 1..Len(lines) : Atoi(LineNumberText(lines[k])) = [ok |-> TRUE,
                                                             v |-> n]}

\* C29: a RunHistorical with index n that follows a listing whose lines
\* carry the number n succeeds and hands back the record printed on the one
\* line numbered n; every listed number is an index in range; and index 0
\* hands back what an OpenEditor call with no tokens hands back.
ListingAndReplay ==
    [][/\ (op = "RunHistorical" /\ args = <<>>) =>
              \A k \in 1..Len(stdout) :
                  LET n == Atoi(LineNumberText(stdout[k])).v
                  IN  /\ Cardinality(LinesNumbered(stdout, n)) = 1
                      /\ HistoricalGet(PreviousExecutions, n).ret = "ok"
       /\ (op = "RunHistorical" /\ args = <<>> /\ op' = "RunHistorical"
             /\ args' # <<>>
             /\ LinesNumbered(stdout, GivenIndex(args')) # {}) =>
              /\ ret' = "ok"
              /\ Len(Executable') = 1
              /\ \A k \in LinesNumbered(stdout, GivenIndex(args')) :
                     /\ LineCommandText(stdout[k])
                            = JoinStrings(Executable'[1], <<" ">>)
                     /\ Executable'[1] = PreviousExecutions[k]
       /\ (op' = "RunHistorical" /\ args' # <<>> /\ GivenIndex(args') = 0
             /\ PreviousExecutions # <<>>) =>
              Executable' = RepeatLast(PreviousExecutions).Executable
       /\ (op' \in Opens /\ args' = <<>> /\ PreviousExecutions # <<>>) =>
              Executable' = HistoricalGet(PreviousExecutions, 0).Executable
      ]_vars

\* the replay of number 1 of a ledger whose two newest records differ
WitnessListingAndReplay ==
    LET n == Len(PreviousExecutions)
    IN  /\ op = "RunHistorical"
        /\ args # <<>>
        /\ GivenIndex(args) = 1
        /\ n >= 2
        /\ PreviousExecutions[n] # PreviousExecutions[n - 1]
        /\ LinesNumbered(HistoryLines(PreviousExecutions), 1) = {n - 1}
        /\ JoinStrings(Executable[1], <<" ">>)
               = LineCommandText(HistoryLines(PreviousExecutions)[n - 1])

\* the step is an OpenEditor call with no tokens right after a successful
\* new invocation of the same version whose ledger update ran
RepeatAfterOpen ==
    /\ op \in Opens
    /\ HandedArgv
    /\ args # <<>>
    /\ recorded # <<>>
    /\ op' = op
    /\ args' = <<>>

\* C30 as stated: the call with no tokens succeeds and hands back exactly
\* the argv the invocation before it handed back.
RepeatReturnsArgv ==
    [][RepeatAfterOpen => (ret' = "ok" /\ Executable' = Executable)]_vars

\* C30: the call with no tokens succeeds and hands back the record the
\* invocation before it appended: for the command-based version the argv
\* that invocation handed back, for the commands-based version that argv
\* with every path that is not an alias path joined to the working
\* directory; nothing is appended.
RepeatReturnsRecord ==
    [][RepeatAfterOpen =>
        /\ ret' = "ok"
        /\ Executable' = recorded
        /\ recorded' = <<>>
        /\ PreviousExecutions' = PreviousExecutions
        /\ op = "OpenEditor" => Executable' = Executable
        /\ op = "OpenEditorLegacy" =>
               /\ Len(Executable'[1]) = Len(Executable[1])
               /\ \A k \in 1..Len(Executable[1]) :
                      Executable'[1][k] =
                          IF /\ k > 2
                             /\ Executable[1][k][1] # "+"
                             /\ \A n \in DOMAIN Aliases :
                                    Aliases[n] # Executable[1][k]
                          THEN Join(Cwd, Executable[1][k])
                          ELSE Executable[1][k]]_vars

\* the commands-based call with no tokens handed back the record of "a",
\* which holds the path joined to the working directory
WitnessRepeatReturnsRecord ==
    /\ op = "OpenEditorLegacy"
    /\ args = <<>>
    /\ ret = "ok"
    /\ Executable = <<<<EMACS, NWS, Join(Cwd, <<"a">>)>>>>
    /\ PreviousExecutions[Len(PreviousExecutions)] = Executable[1]

=============================================================================
